---------------------------- MODULE Spec2Model ----------------------------
(* A model of backend/services/phase_manager.py (PhaseManager over the     *)
(* crop_seasons collection) and backend/services/feedback_processor.py     *)
(* (FeedbackProcessor).                                                     *)
(*                                                                          *)
(* Strings whose characters the code inspects (crop types, farmer          *)
(* responses) are sequences of one-character strings, so that str.lower()  *)
(* and the substring test `kw in text` are computed, not assumed.          *)
(* A document is a function from the field names it has to their values:   *)
(* `"f" in doc` is "f" \in DOMAIN doc. Python's None, where it stands for  *)
(* "no document", is the empty function, which `not season` also rejects.  *)
EXTENDS Integers, Sequences, FiniteSets, TLC

VARIABLES
    db,     \* crop_seasons: season id -> document, for the seasons stored
    tasks,  \* TaskService's pending tasks: season id -> sequence of tasks
    now,    \* datetime.utcnow(), in ticks
    last,   \* the most recent PhaseManager call: arguments and outcome
    fb,     \* the most recent FeedbackProcessor call: arguments and outcome
    calls   \* the auto_transition_phases coroutines in flight: their position
            \* and local variables

vars == <<db, tasks, now, last, fb, calls>>

-----------------------------------------------------------------------------
(* Strings as character sequences                                          *)

UpperCase == <<"A","B","C","D","E","F","G","H","I","J","K","L","M",
               "N","O","P","Q","R","S","T","U","V","W","X","Y","Z">>
LowerCase == <<"a","b","c","d","e","f","g","h","i","j","k","l","m",
               "n","o","p","q","r","s","t","u","v","w","x","y","z">>

LowerOf == [c \in {UpperCase[i] : i \in DOMAIN UpperCase} |->
               LowerCase[CHOOSE i \in DOMAIN UpperCase : UpperCase[i] = c]]

LowerChar(c) == IF c \in DOMAIN LowerOf THEN LowerOf[c] ELSE c

\* str.lower()
Lower(s) == [i \in DOMAIN s |-> LowerChar(s[i])]

\* `kw in text` for two strings
Contains(text, kw) ==
    \E i \in 0..(Len(text) - Len(kw)) : SubSeq(text, i + 1, i + Len(kw)) = kw

-----------------------------------------------------------------------------
(* Documents                                                                *)

None == <<>>

Has(doc, k) == k \in DOMAIN doc

\* dict.get(k, default)
Get(doc, k, default) == IF k \in DOMAIN doc THEN doc[k] ELSE default

\* the document after {"$set": fields}
SetFields(doc, fields) ==
    [k \in DOMAIN doc \cup DOMAIN fields |->
        IF k \in DOMAIN fields THEN fields[k] ELSE doc[k]]

\* `not season`
Falsy(doc) == DOMAIN doc = {}

-----------------------------------------------------------------------------
(* Time                                                                     *)

\* ticks of the clock per day: timedelta.days is the floor of the difference
TicksPerDay == 2

\* (datetime.utcnow() - start_date).days
DaysBetween(t, start) == (t - start) \div TicksPerDay

-----------------------------------------------------------------------------
(* PhaseManager                                                             *)

PHASES == <<"pre_sowing", "growth", "harvest", "completed">>

InPHASES(p) == \E i \in DOMAIN PHASES : PHASES[i] = p

default == <<"d","e","f","a","u","l","t">>

CROP_DURATIONS ==
    ( <<"r","i","c","e">>                          :> [growth_days |-> 120, harvest_window |-> 7]
   @@ <<"w","h","e","a","t">>                      :> [growth_days |-> 120, harvest_window |-> 7]
   @@ <<"m","o","o","n","g","_","d","a","l">>      :> [growth_days |-> 60,  harvest_window |-> 5]
   @@ <<"c","o","t","t","o","n">>                  :> [growth_days |-> 150, harvest_window |-> 14]
   @@ <<"t","o","m","a","t","o">>                  :> [growth_days |-> 75,  harvest_window |-> 10]
   @@ <<"c","u","c","u","m","b","e","r">>          :> [growth_days |-> 55,  harvest_window |-> 7]
   @@ <<"l","e","t","t","u","c","e">>              :> [growth_days |-> 45,  harvest_window |-> 5]
   @@ default                                      :> [growth_days |-> 90,  harvest_window |-> 7] )

\* DurationInfo without .lower(): the table is looked up case-sensitively
DurationInfo_CaseSensitive(season) ==
    Get(CROP_DURATIONS, Get(season, "crop_type", default), CROP_DURATIONS[default])

\* self.CROP_DURATIONS.get(season.get("crop_type", "default").lower(),
\*                         self.CROP_DURATIONS["default"])
DurationInfo(season) ==
    LET crop_type == Lower(Get(season, "crop_type", default))
    IN  Get(CROP_DURATIONS, crop_type, CROP_DURATIONS[default])

\* ObjectId(season_id) raises InvalidId unless the string is a well-formed id
MalformedIds == {"not-an-object-id"}
ObjectIdRaises(season_id) == season_id \in MalformedIds

\* seasons_collection.find_one({"_id": ObjectId(season_id)})
FindOne(d, season_id) == IF season_id \in DOMAIN d THEN d[season_id] ELSE None

\* UpdateOne with upsert=True: a season that matches nothing is inserted
UpdateOne_Upsert(d, season_id, fields) ==
    LET old == IF season_id \in DOMAIN d THEN d[season_id] ELSE None
        doc == SetFields(old, fields)
    IN  [db |-> [k \in DOMAIN d \cup {season_id} |-> IF k = season_id THEN doc ELSE d[k]],
         modified_count |-> IF doc = old THEN 0 ELSE 1]

\* seasons_collection.update_one({"_id": ...}, {"$set": fields}):
\* modified_count counts the documents the update changed
UpdateOne(d, season_id, fields) ==
    IF season_id \in DOMAIN d
    THEN LET doc == SetFields(d[season_id], fields)
         IN  [db |-> [d EXCEPT ![season_id] = doc],
              modified_count |-> IF doc = d[season_id] THEN 0 ELSE 1]
    ELSE [db |-> d, modified_count |-> 0]

\* GetCurrentPhase with the date calculation first: a stored current_phase
\* is returned only for a season without start_date
GetCurrentPhase_DatesFirst(d, t, season_id) ==
    IF ObjectIdRaises(season_id) THEN [raised |-> TRUE, ret |-> "InvalidId"]
    ELSE
    LET season == FindOne(d, season_id) IN
    IF Falsy(season) THEN [raised |-> FALSE, ret |-> "pre_sowing"]
    ELSE IF ~Has(season, "start_date")
    THEN [raised |-> FALSE, ret |-> Get(season, "current_phase", "pre_sowing")]
    ELSE
    LET days_elapsed   == DaysBetween(t, season["start_date"])
        duration_info  == DurationInfo(season)
        growth_days    == duration_info.growth_days
        harvest_window == duration_info.harvest_window
    IN  [raised |-> FALSE,
         ret |-> IF days_elapsed < 0 THEN "pre_sowing"
                 ELSE IF days_elapsed < growth_days THEN "growth"
                 ELSE IF days_elapsed < growth_days + harvest_window THEN "harvest"
                 ELSE "completed"]

\* get_current_phase: [raised, ret]
GetCurrentPhase(d, t, season_id) ==
    IF ObjectIdRaises(season_id) THEN [raised |-> TRUE, ret |-> "InvalidId"]
    ELSE
    LET season == FindOne(d, season_id) IN
    IF Falsy(season) THEN [raised |-> FALSE, ret |-> "pre_sowing"]
    ELSE IF Has(season, "current_phase")
    THEN [raised |-> FALSE, ret |-> season["current_phase"]]
    ELSE IF ~Has(season, "start_date") THEN [raised |-> FALSE, ret |-> "pre_sowing"]
    ELSE
    LET days_elapsed   == DaysBetween(t, season["start_date"])
        duration_info  == DurationInfo(season)
        growth_days    == duration_info.growth_days
        harvest_window == duration_info.harvest_window
    IN  [raised |-> FALSE,
         ret |-> IF days_elapsed < 0 THEN "pre_sowing"
                 ELSE IF days_elapsed < growth_days THEN "growth"
                 ELSE IF days_elapsed < growth_days + harvest_window THEN "harvest"
                 ELSE "completed"]

\* UpdatePhaseCall without the check of new_phase against PHASES
UpdatePhaseCall_NoValidation(d, t, season_id, new_phase) ==
    IF ObjectIdRaises(season_id) THEN [raised |-> TRUE, ret |-> FALSE, db |-> d]
    ELSE
    LET result == UpdateOne(d, season_id,
                            [current_phase |-> new_phase, phase_updated_at |-> t])
    IN  [raised |-> FALSE, ret |-> result.modified_count > 0, db |-> result.db]

\* update_phase: [raised, ret, db]
UpdatePhaseCall(d, t, season_id, new_phase) ==
    IF ~InPHASES(new_phase) THEN [raised |-> FALSE, ret |-> FALSE, db |-> d]
    ELSE IF ObjectIdRaises(season_id) THEN [raised |-> TRUE, ret |-> FALSE, db |-> d]
    ELSE
    LET result == UpdateOne(d, season_id,
                            [current_phase |-> new_phase, phase_updated_at |-> t])
    IN  [raised |-> FALSE, ret |-> result.modified_count > 0, db |-> result.db]


\* TaskService(self.db).get_pending_tasks(season_id)
GetPendingTasks(tk, season_id) == IF season_id \in DOMAIN tk THEN tk[season_id] ELSE <<>>

\* CanTransitionToHarvest with the health threshold off by one (<= 50)
CanTransitionToHarvest_HealthOffByOne(d, tk, t, season_id) ==
    IF ObjectIdRaises(season_id) THEN [raised |-> TRUE, ret |-> None]
    ELSE
    LET season == FindOne(d, season_id) IN
    IF Falsy(season)
    THEN [raised |-> FALSE,
          ret |-> [ready |-> FALSE, reasons |-> << <<"Season not found">> >>]]
    ELSE
    LET days_elapsed == DaysBetween(t, season["start_date"])
        min_days     == DurationInfo(season).growth_days
        too_young    == 10 * days_elapsed < 9 * min_days
        age == IF Has(season, "start_date")
               THEN IF too_young
                    THEN [ready |-> FALSE,
                          reasons |-> << <<"Crop too young", min_days - days_elapsed>> >>]
                    ELSE [ready |-> TRUE,
                          reasons |-> << <<"Crop age", days_elapsed>> >>]
               ELSE [ready |-> FALSE, reasons |-> << <<"Start date not set">> >>]
        health == IF Has(season, "health_score")
                  THEN IF season["health_score"] <= 50
                       THEN [ready |-> FALSE,
                             reasons |-> Append(age.reasons,
                                                <<"Health too low", season["health_score"]>>)]
                       ELSE [ready |-> age.ready,
                             reasons |-> Append(age.reasons,
                                                <<"Health", season["health_score"]>>)]
                  ELSE age
        pending_tasks  == GetPendingTasks(tk, season_id)
        critical_tasks == SelectSeq(pending_tasks,
                                    LAMBDA task : Get(task, "priority", "") = "critical")
        ready   == IF Len(critical_tasks) > 0 THEN FALSE ELSE health.ready
        reasons == IF Len(critical_tasks) > 0
                   THEN Append(health.reasons,
                               <<"critical tasks pending", Len(critical_tasks)>>)
                   ELSE Append(health.reasons, <<"No critical tasks pending">>)
    IN  [raised |-> FALSE,
         ret |-> [ready |-> ready,
                  reasons |-> reasons,
                  recommendation |-> IF ready THEN "Can transition to harvest"
                                     ELSE "Continue growth phase"]]

\* can_transition_to_harvest: [raised, ret]. A reason is a tuple of the
\* message and the numbers formatted into it. min_days * 0.9 is exact in
\* floating point for every growth_days of the table (all multiples of 5),
\* so days_elapsed < min_days * 0.9 is 10 * days_elapsed < 9 * min_days.
CanTransitionToHarvest(d, tk, t, season_id) ==
    IF ObjectIdRaises(season_id) THEN [raised |-> TRUE, ret |-> None]
    ELSE
    LET season == FindOne(d, season_id) IN
    IF Falsy(season)
    THEN [raised |-> FALSE,
          ret |-> [ready |-> FALSE, reasons |-> << <<"Season not found">> >>]]
    ELSE
    LET days_elapsed == DaysBetween(t, season["start_date"])
        min_days     == DurationInfo(season).growth_days
        too_young    == 10 * days_elapsed < 9 * min_days
        age == IF Has(season, "start_date")
               THEN IF too_young
                    THEN [ready |-> FALSE,
                          reasons |-> << <<"Crop too young", min_days - days_elapsed>> >>]
                    ELSE [ready |-> TRUE,
                          reasons |-> << <<"Crop age", days_elapsed>> >>]
               ELSE [ready |-> FALSE, reasons |-> << <<"Start date not set">> >>]
        health == IF Has(season, "health_score")
                  THEN IF season["health_score"] < 50
                       THEN [ready |-> FALSE,
                             reasons |-> Append(age.reasons,
                                                <<"Health too low", season["health_score"]>>)]
                       ELSE [ready |-> age.ready,
                             reasons |-> Append(age.reasons,
                                                <<"Health", season["health_score"]>>)]
                  ELSE age
        pending_tasks  == GetPendingTasks(tk, season_id)
        critical_tasks == SelectSeq(pending_tasks,
                                    LAMBDA task : Get(task, "priority", "") = "critical")
        ready   == IF Len(critical_tasks) > 0 THEN FALSE ELSE health.ready
        reasons == IF Len(critical_tasks) > 0
                   THEN Append(health.reasons,
                               <<"critical tasks pending", Len(critical_tasks)>>)
                   ELSE Append(health.reasons, <<"No critical tasks pending">>)
    IN  [raised |-> FALSE,
         ret |-> [ready |-> ready,
                  reasons |-> reasons,
                  recommendation |-> IF ready THEN "Can transition to harvest"
                                     ELSE "Continue growth phase"]]

\* Optional[str]: no transition
NoTransition == "None"

\* AutoTransitionCall leaving pre_sowing without looking for the season's
\* start_date
AutoTransitionCall_NoSeasonCheck(d, tk, t, season_id) ==
    LET phase == GetCurrentPhase(d, t, season_id) IN
    IF phase.raised
    THEN [raised |-> TRUE, ret |-> NoTransition, db |-> d, current_phase |-> NoTransition]
    ELSE
    LET current_phase == phase.ret
        season == FindOne(d, season_id)
        stay == [raised |-> FALSE, ret |-> NoTransition, db |-> d,
                 current_phase |-> current_phase]
        move(p) == [raised |-> FALSE, ret |-> p,
                    db |-> UpdatePhaseCall(d, t, season_id, p).db,
                    current_phase |-> current_phase]
    IN  IF current_phase = "pre_sowing"
        THEN move("growth")
        ELSE IF current_phase = "growth"
        THEN IF CanTransitionToHarvest(d, tk, t, season_id).ret.ready
             THEN move("harvest") ELSE stay
        ELSE IF current_phase = "harvest"
        THEN IF ~Falsy(season) /\ Has(season, "actual_harvest_date")
             THEN move("completed") ELSE stay
        ELSE stay

\* auto_transition_phases: [raised, ret, db, current_phase]
AutoTransitionCall(d, tk, t, season_id) ==
    LET phase == GetCurrentPhase(d, t, season_id) IN
    IF phase.raised
    THEN [raised |-> TRUE, ret |-> NoTransition, db |-> d, current_phase |-> NoTransition]
    ELSE
    LET current_phase == phase.ret
        season == FindOne(d, season_id)
        stay == [raised |-> FALSE, ret |-> NoTransition, db |-> d,
                 current_phase |-> current_phase]
        move(p) == [raised |-> FALSE, ret |-> p,
                    db |-> UpdatePhaseCall(d, t, season_id, p).db,
                    current_phase |-> current_phase]
    IN  IF current_phase = "pre_sowing"
        THEN IF ~Falsy(season) /\ Has(season, "start_date") THEN move("growth") ELSE stay
        ELSE IF current_phase = "growth"
        THEN IF CanTransitionToHarvest(d, tk, t, season_id).ret.ready
             THEN move("harvest") ELSE stay
        ELSE IF current_phase = "harvest"
        THEN IF ~Falsy(season) /\ Has(season, "actual_harvest_date")
             THEN move("completed") ELSE stay
        ELSE stay

-----------------------------------------------------------------------------
(* The state space explored                                                 *)

StoredIds == {"season-1"}
AbsentIds == {"season-2"}
SeasonIds == StoredIds \cup AbsentIds \cup MalformedIds

\* new_phase arguments: the four phases and one that is none of them
PhaseArgs == {PHASES[i] : i \in DOMAIN PHASES} \cup {"flowering"}

\* update_phase calls: every new_phase for a stored season; for an id with
\* no document, one phase and the invalid one
UpdateArgs ==
    (StoredIds \X PhaseArgs) \cup ((AbsentIds \cup MalformedIds) \X {"growth", "flowering"})

CropTypes == { <<"L","e","t","t","u","c","e">>, <<"m","a","i","z","e">> }
StartDates == {0}
HealthScores == {49, 50}
HarvestDates == {0}
TaskLists == { <<[priority |-> "high"]>>,
               <<[priority |-> "high"], [priority |-> "critical"]>> }

\* the days after a start date at which a crop in CropTypes enters harvest
\* and completes
PhaseDays ==
    UNION { LET info == DurationInfo([crop_type |-> c])
            IN  {info.growth_days, info.growth_days + info.harvest_window}
            : c \in CropTypes }

\* the first day at which a crop of the table in CropTypes has reached 90%
\* of its growth period, and the day before
ReadyDays ==
    UNION { LET g == CROP_DURATIONS[Lower(c)].growth_days
                r == (9 * g + 9) \div 10
            IN  {r - 1, r}
            : c \in {x \in CropTypes : Lower(x) \in DOMAIN CROP_DURATIONS} }

\* the clock readings explored: the tick before each start date, and the
\* first tick of the start day and of each threshold day
Instants ==
    UNION { {s - 1} \cup {s + n * TicksPerDay : n \in {0} \cup ReadyDays \cup PhaseDays}
            : s \in StartDates }

\* the fields other code stores in a season document
SeasonData ==
    [crop_type : CropTypes] \cup [start_date : StartDates]
    \cup [health_score : HealthScores] \cup [actual_harvest_date : HarvestDates]

Optional(field, values) == {None} \cup {field :> v : v \in values}

\* a season as created, before any phase is stored
NewSeasons(season_id) ==
    { ("_id" :> season_id) @@ c @@ s @@ h @@ a :
        c \in Optional("crop_type", CropTypes),
        s \in Optional("start_date", StartDates),
        h \in Optional("health_score", HealthScores),
        a \in Optional("actual_harvest_date", HarvestDates) }

FirstInstant == CHOOSE t \in Instants : \A u \in Instants : t <= u

NoCall == [op |-> "none", season_id |-> "", new_phase |-> "", raised |-> FALSE,
           success |-> FALSE, transition |-> NoTransition,
           current_phase |-> NoTransition]

NoFeedback == [op |-> "none"]

\* the coroutines that run auto_transition_phases
AutoCalls == {"auto-1", "auto-2"}

\* a coroutine that is not inside a call: pc is its position, the other
\* fields the locals current_phase, season, new_phase, the clock reading of
\* can_transition_to_harvest, the value returned, and for a call that wrote
\* the phase, the current_phase it replaced
NotCalled == [pc |-> "start", current_phase |-> NoTransition, season |-> None,
              t |-> 0, new_phase |-> NoTransition, ret |-> NoTransition,
              wrote |-> FALSE, replaced |-> NoTransition]

NoCalls == [c \in AutoCalls |-> NotCalled]

Init ==
    /\ db \in { f \in [StoredIds -> UNION {NewSeasons(s) : s \in StoredIds}] :
                  \A s \in StoredIds : f[s]["_id"] = s }
    /\ tasks \in [StoredIds -> TaskLists]
    /\ now = FirstInstant
    /\ last = NoCall
    /\ calls = NoCalls
    /\ fb = NoFeedback

\* time passes
Tick ==
    /\ \E t \in Instants : t > now /\ now' = t
    /\ UNCHANGED <<db, tasks, last, fb, calls>>

\* other code stores season data: never the phase fields
RecordSeasonData ==
    /\ \E s \in StoredIds, fields \in SeasonData :
          db' = [db EXCEPT ![s] = SetFields(db[s], fields)]
    /\ UNCHANGED <<tasks, now, last, fb, calls>>

\* tasks are created and completed
PendingTasksChange ==
    /\ \E s \in StoredIds, l \in TaskLists : tasks' = [tasks EXCEPT ![s] = l]
    /\ UNCHANGED <<db, now, last, fb, calls>>

UpdatePhase(season_id, new_phase) ==
    LET call == UpdatePhaseCall(db, now, season_id, new_phase) IN
    /\ db' = call.db
    /\ last' = [NoCall EXCEPT !.op = "update_phase", !.season_id = season_id,
                              !.new_phase = new_phase, !.raised = call.raised,
                              !.success = call.ret]
    /\ UNCHANGED <<tasks, now, fb, calls>>

AutoTransitionPhases(season_id) ==
    LET call == AutoTransitionCall(db, tasks, now, season_id) IN
    /\ db' = call.db
    /\ last' = [NoCall EXCEPT !.op = "auto_transition_phases", !.season_id = season_id,
                              !.raised = call.raised, !.transition = call.ret,
                              !.current_phase = call.current_phase]
    /\ UNCHANGED <<tasks, now, fb, calls>>

Next ==
    \/ Tick
    \/ RecordSeasonData
    \/ PendingTasksChange
    \/ \E a \in UpdateArgs : UpdatePhase(a[1], a[2])
    \/ \E s \in SeasonIds : AutoTransitionPhases(s)

Spec == Init /\ [][Next]_vars


-----------------------------------------------------------------------------
(* Claims about PhaseManager, checked under Spec                            *)

PhaseNames == {"pre_sowing", "growth", "harvest", "completed"}

WellFormedIds == StoredIds \cup AbsentIds

\* the whole days in a difference of clock readings, by its definition: the
\* day, among those the clock readings fall in, that holds the difference
WholeDays(ticks) ==
    CHOOSE n \in {-1, 0} \cup ReadyDays \cup PhaseDays :
        n * TicksPerDay <= ticks /\ ticks < (n + 1) * TicksPerDay

SameIgnoringCase(a, b) ==
    Len(a) = Len(b) /\ \A i \in 1..Len(a) : LowerChar(a[i]) = LowerChar(b[i])

\* the table entry the crop type of a season selects: the entry whose name
\* is the crop type up to case, the default entry when there is none
EntryOf(season) ==
    IF Has(season, "crop_type")
       /\ \E k \in DOMAIN CROP_DURATIONS : SameIgnoringCase(k, season["crop_type"])
    THEN CROP_DURATIONS[CHOOSE k \in DOMAIN CROP_DURATIONS :
                            SameIgnoringCase(k, season["crop_type"])]
    ELSE [growth_days |-> 90, harvest_window |-> 7]

\* C1: whatever update_phase and auto_transition_phases calls were made, with
\* valid or invalid arguments, and however much time has passed, a
\* get_current_phase call that returns, returns one of the four phases.
C1_PhaseIsOneOfFour ==
    \A s \in SeasonIds :
        LET r == GetCurrentPhase(db, now, s)
        IN  ~r.raised => r.ret \in PhaseNames

\* an invalid phase was offered for a stored season that has a stored phase,
\* after time has passed
C1_Witness ==
    /\ last.op = "update_phase" /\ last.new_phase = "flowering"
    /\ last.season_id \in StoredIds
    /\ Has(db[last.season_id], "current_phase")
    /\ now > FirstInstant

\* C2: without a stored current_phase, the phase of a season with a
\* start_date follows from the whole days d since start_date and the table
\* entry (g, w) of its crop type: pre_sowing if d < 0, growth if 0 <= d < g,
\* harvest if g <= d < g + w, completed if d >= g + w; a season that is not
\* stored, or has neither current_phase nor start_date, is in pre_sowing.
C2_DerivedPhase ==
    \A s \in WellFormedIds :
        LET r == GetCurrentPhase(db, now, s) IN
        /\ ~r.raised
        /\ s \notin DOMAIN db => r.ret = "pre_sowing"
        /\ (s \in DOMAIN db /\ ~Has(db[s], "current_phase")) =>
              IF ~Has(db[s], "start_date") THEN r.ret = "pre_sowing"
              ELSE LET n == WholeDays(now - db[s]["start_date"])
                       g == EntryOf(db[s]).growth_days
                       w == EntryOf(db[s]).harvest_window
                   IN  /\ n < 0 => r.ret = "pre_sowing"
                       /\ (0 <= n /\ n < g) => r.ret = "growth"
                       /\ (g <= n /\ n < g + w) => r.ret = "harvest"
                       /\ n >= g + w => r.ret = "completed"

\* auto_transition_phases read the phase of a season with no stored phase
\* whose crop type is spelt with a capital, and found it in harvest
C2_Witness ==
    /\ last.op = "auto_transition_phases" /\ last.season_id \in StoredIds
    /\ last.current_phase = "harvest"
    /\ ~Has(db[last.season_id], "current_phase")
    /\ Has(db[last.season_id], "start_date")
    /\ Get(db[last.season_id], "crop_type", default) = <<"L","e","t","t","u","c","e">>
    /\ GetCurrentPhase(db, now, last.season_id).ret = "harvest"

\* C3: once update_phase(s, p) has returned True, get_current_phase(s)
\* returns p, whatever the dates say, until the next update_phase or
\* auto_transition_phases call.
C3_ManualOverride ==
    (last.op = "update_phase" /\ ~last.raised /\ last.success) =>
        /\ last.new_phase \in PhaseNames
        /\ GetCurrentPhase(db, now, last.season_id)
              = [raised |-> FALSE, ret |-> last.new_phase]

\* a season was set back to pre_sowing and time has passed: by its dates it
\* would now be completed
C3_Witness ==
    /\ last.op = "update_phase" /\ last.success /\ last.new_phase = "pre_sowing"
    /\ Has(db[last.season_id], "start_date")
    /\ now > db[last.season_id]["phase_updated_at"]
    /\ LET info == DurationInfo(db[last.season_id])
       IN  DaysBetween(now, db[last.season_id]["start_date"])
              >= info.growth_days + info.harvest_window

\* C4: update_phase returns False and changes no season document when
\* new_phase is none of the four phases or when the id is that of no stored
\* season; and it returns True only with new_phase stored as the season's
\* current_phase.
C4_UpdatePhaseResult ==
    /\ [][ ( /\ last'.op = "update_phase"
              /\ (last'.new_phase \notin PhaseNames \/ last'.season_id \in AbsentIds)
              /\ UpdatePhase(last'.season_id, last'.new_phase) )
            => (~last'.raised /\ ~last'.success /\ db' = db) ]_vars
    /\ []( (last.op = "update_phase" /\ last.success) =>
              /\ last.season_id \in DOMAIN db
              /\ Get(db[last.season_id], "current_phase", NoTransition) = last.new_phase )

\* a valid phase was offered for an id that no season has
C4_Witness ==
    /\ last.op = "update_phase" /\ ~last.raised /\ ~last.success
    /\ last.season_id \in AbsentIds /\ last.new_phase = "growth"

\* C7: when auto_transition_phases returns p, p is the phase that follows
\* the one get_current_phase reported at the start of the call, and p is the
\* season's stored current_phase; when it returns None, no season document
\* has changed.
C7_AutoTransition ==
    /\ []( (last.op = "auto_transition_phases" /\ ~last.raised
              /\ last.transition # NoTransition) =>
              /\ \E i \in 1..(Len(PHASES) - 1) :
                    PHASES[i] = last.current_phase /\ PHASES[i + 1] = last.transition
              /\ last.season_id \in DOMAIN db
              /\ Get(db[last.season_id], "current_phase", NoTransition) = last.transition )
    /\ [][ ( /\ last'.op = "auto_transition_phases"
              /\ last'.transition = NoTransition
              /\ AutoTransitionPhases(last'.season_id) )
            => db' = db ]_vars

\* a growing season was moved to harvest
C7_Witness ==
    /\ last.op = "auto_transition_phases" /\ last.transition = "harvest"
    /\ last.current_phase = "growth"

\* C8: can_transition_to_harvest says ready exactly when the season is
\* stored, has a start_date, has 10 * d >= 9 * growth_days for the whole days
\* d since then, has no health_score below 50 and no pending task of
\* priority critical; for a season that is not stored the reasons are
\* ["Season not found"]; the recommendation is "Can transition to harvest"
\* exactly when ready.
C8_HarvestReadiness ==
    \A s \in WellFormedIds :
        LET r == CanTransitionToHarvest(db, tasks, now, s) IN
        /\ ~r.raised
        /\ r.ret.ready <=>
              /\ s \in DOMAIN db
              /\ Has(db[s], "start_date")
              /\ 10 * WholeDays(now - db[s]["start_date"]) >= 9 * EntryOf(db[s]).growth_days
              /\ (Has(db[s], "health_score") => db[s]["health_score"] >= 50)
              /\ \A i \in 1..Len(tasks[s]) :
                    Get(tasks[s][i], "priority", "") # "critical"
        /\ s \notin DOMAIN db =>
              (~r.ret.ready /\ r.ret.reasons = << <<"Season not found">> >>)
        /\ (Get(r.ret, "recommendation", "") = "Can transition to harvest") <=> r.ret.ready

\* a season with health score 50 on the first day that is 90% of its growth
\* period is ready, and auto_transition_phases has moved it to harvest
C8_Witness ==
    \E s \in StoredIds :
        /\ CanTransitionToHarvest(db, tasks, now, s).ret.ready
        /\ Get(db[s], "health_score", 0) = 50
        /\ 10 * DaysBetween(now, db[s]["start_date"]) < 9 * DurationInfo(db[s]).growth_days + 10
        /\ last.op = "auto_transition_phases" /\ last.season_id = s
        /\ last.transition = "harvest"


-----------------------------------------------------------------------------
(* FeedbackProcessor                                                        *)
(*                                                                          *)
(* A Python value is [type, value]: a dict's value is a function from its  *)
(* keys; the value of a list is [items |-> the sequence of its elements],  *)
(* that of a str [items |-> the sequence of its words]. The text of an LLM *)
(* reply is a sequence of tokens [kind, value]:  *)
(* "fence" is ```, "json" the word json, "space" white space, "prose" any  *)
(* other text that is not JSON, and "document" the text of one JSON value, *)
(* carried as the Python value json.loads makes of it.                     *)

Items(s) == [items |-> s]

\* Python's None
NoneValue == [type |-> "NoneType", value |-> Items(<<>>)]

Fence    == [kind |-> "fence",    value |-> NoneValue]
JsonWord == [kind |-> "json",     value |-> NoneValue]
Space    == [kind |-> "space",    value |-> NoneValue]
Prose    == [kind |-> "prose",    value |-> NoneValue]
Document(v) == [kind |-> "document", value |-> v]

\* text[n:]
Drop(text, n) == SubSeq(text, n + 1, Len(text))

\* str.strip()
RECURSIVE Strip(_)
Strip(text) ==
    IF text = <<>> THEN text
    ELSE IF text[1].kind = "space" THEN Strip(Drop(text, 1))
    ELSE IF text[Len(text)].kind = "space" THEN Strip(SubSeq(text, 1, Len(text) - 1))
    ELSE text

\* the removal of markdown code blocks
RemoveCodeBlocks(result_text) ==
    LET a == IF Len(result_text) >= 2 /\ result_text[1].kind = "fence"
                /\ result_text[2].kind = "json"
             THEN Drop(result_text, 2) ELSE result_text
        b == IF Len(a) >= 1 /\ a[1].kind = "fence" THEN Drop(a, 1) ELSE a
    IN  IF Len(b) >= 1 /\ b[Len(b)].kind = "fence" THEN SubSeq(b, 1, Len(b) - 1) ELSE b

\* json.loads: [raised, value]. The text must be one JSON value
JsonLoads(text) ==
    IF Len(text) = 1 /\ text[1].kind = "document"
    THEN [raised |-> FALSE, value |-> text[1].value]
    ELSE [raised |-> TRUE, value |-> NoneValue]

required_fields == <<"completed_as_planned", "actual_action", "is_deviation", "severity">>

\* `field in result`: a key of a dict, an element of a list, a substring of
\* a str; any other type raises TypeError
Iterable(result) == result.type \in {"dict", "list", "str"}
In(field, result) ==
    IF result.type = "dict" THEN field \in DOMAIN result.value
    ELSE \E i \in 1..Len(result.value.items) : result.value.items[i] = field

\* the loop over required_fields: [raised, value]. result[field] = None
\* raises TypeError unless result is a dict
ValidateRequiredFields(result) ==
    LET missing == {i \in DOMAIN required_fields : ~In(required_fields[i], result)} IN
    IF ~Iterable(result) THEN [raised |-> TRUE, value |-> result]
    ELSE IF result.type = "dict"
    THEN [raised |-> FALSE,
          value |-> [type |-> "dict",
                     value |-> [k \in DOMAIN result.value
                                      \cup {required_fields[i] : i \in missing} |->
                                  IF k \in DOMAIN result.value THEN result.value[k]
                                  ELSE NoneValue]]]
    ELSE [raised |-> missing # {}, value |-> result]

completion_keywords ==
    << <<"d","o","n","e">>, <<"c","o","m","p","l","e","t","e","d">>,
       <<"d","i","d"," ","i","t">>, <<"f","i","n","i","s","h","e","d">>,
       <<"a","p","p","l","i","e","d">>, <<"y","e","s">> >>

deviation_keywords ==
    << <<"i","n","s","t","e","a","d">>, <<"d","i","f","f","e","r","e","n","t">>,
       <<"c","o","u","l","d","n","'","t">>, <<"f","o","r","g","o","t">>,
       <<"d","i","d","n","'","t">>, <<"o","t","h","e","r">> >>

\* any(keyword in response_lower for keyword in keywords)
AnyIn(keywords, response_lower) ==
    \E i \in DOMAIN keywords : Contains(response_lower, keywords[i])

\* FallbackAnalysis without .lower(): the keywords are sought in the
\* response as written
FallbackAnalysis_CaseSensitive(planned_action, farmer_response) ==
    LET completed     == AnyIn(completion_keywords, farmer_response)
        has_deviation == AnyIn(deviation_keywords, farmer_response)
    IN  IF completed /\ ~has_deviation
        THEN [type |-> "dict",
              value |-> [completed_as_planned |-> TRUE,
                         actual_action |-> planned_action,
                         is_deviation |-> FALSE,
                         deviation_type |-> "none",
                         severity |-> "none",
                         impact_summary |-> "Task completed as planned",
                         requires_agent_response |-> FALSE]]
        ELSE [type |-> "dict",
              value |-> [completed_as_planned |-> FALSE,
                         actual_action |-> farmer_response,
                         is_deviation |-> TRUE,
                         deviation_type |-> "unknown",
                         severity |-> "moderate",
                         impact_summary |->
                             "Farmer response indicates possible deviation - manual review needed",
                         requires_agent_response |-> TRUE]]

\* _fallback_analysis
FallbackAnalysis(planned_action, farmer_response) ==
    LET response_lower == Lower(farmer_response)
        completed      == AnyIn(completion_keywords, response_lower)
        has_deviation  == AnyIn(deviation_keywords, response_lower)
    IN  IF completed /\ ~has_deviation
        THEN [type |-> "dict",
              value |-> [completed_as_planned |-> TRUE,
                         actual_action |-> planned_action,
                         is_deviation |-> FALSE,
                         deviation_type |-> "none",
                         severity |-> "none",
                         impact_summary |-> "Task completed as planned",
                         requires_agent_response |-> FALSE]]
        ELSE [type |-> "dict",
              value |-> [completed_as_planned |-> FALSE,
                         actual_action |-> farmer_response,
                         is_deviation |-> TRUE,
                         deviation_type |-> "unknown",
                         severity |-> "moderate",
                         impact_summary |->
                             "Farmer response indicates possible deviation - manual review needed",
                         requires_agent_response |-> TRUE]]

\* analyze_feedback, given what the Groq call did: [llm, parsed, fallback, ret].
\* llm is "raised" (the request failed), "no_content" (message.content is
\* None, so .strip() raises) or "content"; parsed is what json.loads made
\* of the reply; fallback tells that the except branch ran
AnalyzeFeedbackCall(planned_action, farmer_response, response) ==
    LET failed  == [raised |-> TRUE, value |-> NoneValue]
        loaded  == IF response.kind = "content"
                   THEN JsonLoads(Strip(RemoveCodeBlocks(Strip(response.text))))
                   ELSE failed
        checked == IF loaded.raised THEN failed ELSE ValidateRequiredFields(loaded.value)
    IN  [llm |-> response.kind,
         parsed |-> loaded,
         fallback |-> checked.raised,
         ret |-> IF checked.raised
                 THEN FallbackAnalysis(planned_action, farmer_response)
                 ELSE checked.value]

\* generate_adaptation_prompt: [raised, ret]. .get needs a dict
\* (AttributeError), the subscripts need their keys (KeyError, TypeError);
\* the prompt is the sequence of the values formatted into it
GenerateAdaptationPromptCall(deviation_analysis, current_plan, crop_type) ==
    IF deviation_analysis.type # "dict"
       \/ \E k \in {"actual_action", "severity", "impact_summary"} :
             k \notin DOMAIN deviation_analysis.value
    THEN [raised |-> TRUE, ret |-> <<>>]
    ELSE LET a == deviation_analysis.value
         IN  [raised |-> FALSE,
              ret |-> << <<"DEVIATION DETECTED in", crop_type>>,
                         <<"PLANNED ACTION", Get(a, "planned_action", "N/A")>>,
                         <<"ACTUAL ACTION", a["actual_action"]>>,
                         <<"DEVIATION TYPE", Get(a, "deviation_type", "unknown")>>,
                         <<"SEVERITY", a["severity"]>>,
                         <<"IMPACT", a["impact_summary"]>>,
                         <<"CURRENT PLAN", current_plan>> >>]

-----------------------------------------------------------------------------
(* The calls of FeedbackProcessor explored                                  *)

\* the longest farmer response, in chunks
MaxChunks == 2

\* the most keys an object in an LLM reply lacks
MaxMissing == 1

\* the pieces farmer responses are made of: "did" + " it" and "did" + "n't"
\* make a completion and a deviation keyword across two pieces
Chunks == { <<"Y","E","S">>, <<"d","i","d">>, <<" ","i","t">>, <<"n","'","t">>,
            <<"o","t","h","e","r">> }

RECURSIVE Concat(_)
Concat(pieces) == IF pieces = <<>> THEN <<>> ELSE pieces[1] \o Concat(Drop(pieces, 1))

FarmerResponses == UNION { {Concat(c) : c \in [1..n -> Chunks]} : n \in 0..MaxChunks }

PlannedActions == { <<"A","p","p","l","y"," ","u","r","e","a">> }

\* the keys of the reply format of the prompt, with the values of its
\* second example
ReplyKeys == {"completed_as_planned", "actual_action", "is_deviation", "deviation_type",
              "severity", "impact_summary", "requires_agent_response"}

ExampleReply ==
    [completed_as_planned |-> FALSE,
     actual_action |-> <<"c","o","w"," ","d","u","n","g">>,
     is_deviation |-> TRUE,
     deviation_type |-> "fertilizer_change",
     severity |-> "moderate",
     impact_summary |-> "Organic fertilizer substitution",
     requires_agent_response |-> TRUE]

\* what json.loads can return: objects that lack up to MaxMissing keys,
\* arrays and strings made of required field names, a number, null, true
JsonValues ==
    { [type |-> "dict", value |-> [k \in ReplyKeys \ m |-> ExampleReply[k]]] :
        m \in {x \in SUBSET ReplyKeys : Cardinality(x) <= MaxMissing} }
    \cup { [type |-> t, value |-> Items(SubSeq(required_fields, 1, n))] :
             t \in {"list", "str"}, n \in 0..Len(required_fields) }
    \cup { [type |-> t, value |-> Items(<<>>)] : t \in {"int", "NoneType", "bool"} }

Prefixes == { <<>>, <<Fence, JsonWord>>, <<Fence>>, <<Fence, JsonWord, Space>>,
              <<Space, Fence, JsonWord, Space>>, <<Fence, JsonWord, Fence>>,
              <<JsonWord>>, <<Prose, Space>> }

Suffixes == { <<>>, <<Fence>>, <<Space, Fence>>, <<Space, Fence, Space>>,
              <<Space, Prose>> }

\* the reply texts: every JSON value as it is, and each way of wrapping a
\* reply around nothing, prose, a complete object and an array of the
\* required field names
WrappedBodies ==
    { <<>>, <<Prose>>,
      <<Document([type |-> "dict", value |-> ExampleReply])>>,
      <<Document([type |-> "list", value |-> Items(required_fields)])>> }

ReplyTexts ==
    { <<Document(v)>> : v \in JsonValues }
    \cup { a \o b \o c : a \in Prefixes, b \in WrappedBodies, c \in Suffixes }

\* what the Groq call does
Responses ==
    { [kind |-> k, text |-> <<>>] : k \in {"raised", "no_content"} }
    \cup { [kind |-> "content", text |-> t] : t \in ReplyTexts }

\* FeedbackProcessor keeps nothing between calls, so a behaviour is the
\* processing of one task's feedback: a planned action and a farmer's
\* response, analysed once, and the analysis then turned into a prompt
InitFeedback ==
    /\ db = [s \in StoredIds |-> "_id" :> s]
    /\ tasks = [s \in StoredIds |-> <<>>]
    /\ now = FirstInstant
    /\ last = NoCall
    /\ calls = NoCalls
    /\ \E planned_action \in PlannedActions, farmer_response \in FarmerResponses :
          fb = [op |-> "none",
                planned_action |-> planned_action,
                farmer_response |-> farmer_response]

CallFallbackAnalysis ==
    /\ fb.op = "none"
    /\ fb' = [op |-> "_fallback_analysis",
              planned_action |-> fb.planned_action,
              farmer_response |-> fb.farmer_response,
              ret |-> FallbackAnalysis(fb.planned_action, fb.farmer_response)]
    /\ UNCHANGED <<db, tasks, now, last, calls>>

AnalyzeFeedback ==
    /\ fb.op = "none"
    /\ \E response \in Responses :
          LET call == AnalyzeFeedbackCall(fb.planned_action, fb.farmer_response, response)
          IN  fb' = [op |-> "analyze_feedback",
                     planned_action |-> fb.planned_action,
                     farmer_response |-> fb.farmer_response,
                     llm |-> call.llm, parsed |-> call.parsed,
                     fallback |-> call.fallback, ret |-> call.ret]
    /\ UNCHANGED <<db, tasks, now, last, calls>>

\* generate_adaptation_prompt on the analysis analyze_feedback returned
GenerateAdaptationPrompt ==
    /\ fb.op = "analyze_feedback"
    /\ LET call == GenerateAdaptationPromptCall(fb.ret, "Week 1: Sow seeds", "rice")
       IN  fb' = [op |-> "generate_adaptation_prompt",
                  planned_action |-> fb.planned_action,
                  farmer_response |-> fb.farmer_response,
                  deviation_analysis |-> fb.ret,
                  raised |-> call.raised, ret |-> call.ret]
    /\ UNCHANGED <<db, tasks, now, last, calls>>

NextFeedback ==
    \/ CallFallbackAnalysis
    \/ AnalyzeFeedback
    \/ GenerateAdaptationPrompt

SpecFeedback == InitFeedback /\ [][NextFeedback]_vars

-----------------------------------------------------------------------------
(* Claims about FeedbackProcessor, checked under SpecFeedback               *)

\* C5: whenever the LLM call fails, or its reply is not parsed and validated
\* as a JSON object, analyze_feedback returns exactly
\* _fallback_analysis(planned_action, farmer_response).
C5_FallbackOnFailure ==
    ( /\ fb.op = "analyze_feedback"
      /\ (fb.llm # "content" \/ fb.parsed.raised \/ fb.parsed.value.type # "dict") )
    => /\ fb.ret.type = "dict"
       /\ fb.ret.value = FallbackAnalysis(fb.planned_action, fb.farmer_response).value

\* C6: every dictionary analyze_feedback returns has the documented keys
\* is_deviation, actual_action, severity, impact_summary and
\* requires_agent_response.
C6_DocumentedKeys ==
    (fb.op = "analyze_feedback" /\ fb.ret.type = "dict") =>
        {"is_deviation", "actual_action", "severity", "impact_summary",
         "requires_agent_response"} \subseteq DOMAIN fb.ret.value

\* C9: generate_adaptation_prompt returns a prompt, without raising, for
\* every analysis analyze_feedback can return.
C9_PromptForEveryAnalysis ==
    fb.op = "generate_adaptation_prompt" => ~fb.raised

ClaimCompletionKeywords ==
    { <<"d","o","n","e">>, <<"c","o","m","p","l","e","t","e","d">>,
      <<"d","i","d"," ","i","t">>, <<"f","i","n","i","s","h","e","d">>,
      <<"a","p","p","l","i","e","d">>, <<"y","e","s">> }

ClaimDeviationKeywords ==
    { <<"i","n","s","t","e","a","d">>, <<"d","i","f","f","e","r","e","n","t">>,
      <<"c","o","u","l","d","n","'","t">>, <<"f","o","r","g","o","t">>,
      <<"d","i","d","n","'","t">>, <<"o","t","h","e","r">> }

\* the lower-cased response has a completion keyword and no deviation keyword
SaysDone(farmer_response) ==
    /\ \E k \in ClaimCompletionKeywords : Contains(Lower(farmer_response), k)
    /\ \A k \in ClaimDeviationKeywords : ~Contains(Lower(farmer_response), k)

\* C10: _fallback_analysis answers completed-as-planned (is_deviation False,
\* severity none, actual_action the planned action, requires_agent_response
\* False) exactly when the lower-cased response contains a completion
\* keyword and no deviation keyword; otherwise it answers is_deviation True,
\* deviation_type unknown, severity moderate, actual_action the farmer's
\* response, requires_agent_response True.
C10_FallbackClassification ==
    fb.op = "_fallback_analysis" =>
        LET a == fb.ret.value
            as_planned == /\ a.is_deviation = FALSE
                          /\ a.severity = "none"
                          /\ a.actual_action = fb.planned_action
                          /\ a.requires_agent_response = FALSE
            deviation  == /\ a.is_deviation = TRUE
                          /\ a.deviation_type = "unknown"
                          /\ a.severity = "moderate"
                          /\ a.actual_action = fb.farmer_response
                          /\ a.requires_agent_response = TRUE
        IN  /\ fb.ret.type = "dict"
            /\ as_planned <=> SaysDone(fb.farmer_response)
            /\ ~SaysDone(fb.farmer_response) => deviation

\* "YES" is a completion only once lower-cased, and "YESother" holds a
\* completion and a deviation keyword: a deviation
C10_Witness ==
    /\ fb.op = "_fallback_analysis"
    /\ \/ /\ fb.farmer_response = <<"Y","E","S">>
          /\ fb.ret.value.is_deviation = FALSE
       \/ /\ fb.farmer_response = <<"Y","E","S","o","t","h","e","r">>
          /\ fb.ret.value.is_deviation = TRUE

-----------------------------------------------------------------------------
(* FeedbackProcessor.calculate_impact_metrics                               *)

\* the impact lookup table (rough estimates)
impact_table ==
    [fertilizer_change |->
        [minor    |-> [yield |-> -2,  timeline |-> 0],
         moderate |-> [yield |-> -10, timeline |-> 3],
         major    |-> [yield |-> -20, timeline |-> 7]],
     delay |->
        [minor    |-> [yield |-> -1,  timeline |-> 1],
         moderate |-> [yield |-> -5,  timeline |-> 3],
         major    |-> [yield |-> -15, timeline |-> 7]],
     method_change |->
        [minor    |-> [yield |-> -3,  timeline |-> 0],
         moderate |-> [yield |-> -8,  timeline |-> 2],
         major    |-> [yield |-> -12, timeline |-> 5]],
     quantity_change |->
        [minor    |-> [yield |-> -2,  timeline |-> 0],
         moderate |-> [yield |-> -7,  timeline |-> 1],
         major    |-> [yield |-> -15, timeline |-> 3]]]

\* a variant whose first lookup falls back on the "delay" row instead of {}
CalculateImpactMetricsCall_DefaultRow(deviation_type, severity, crop_type) ==
    LET impact == Get(Get(impact_table, deviation_type, impact_table["delay"]),
                      severity, [yield |-> 0, timeline |-> 0])
    IN  [estimated_yield_change_percent |-> impact["yield"],
         estimated_timeline_change_days |-> impact["timeline"],
         confidence |-> "low"]

\* calculate_impact_metrics: impact_table.get(deviation_type, {})
\* .get(severity, {"yield": 0, "timeline": 0}); crop_type is not read
CalculateImpactMetricsCall(deviation_type, severity, crop_type) ==
    LET impact == Get(Get(impact_table, deviation_type, None),
                      severity, [yield |-> 0, timeline |-> 0])
    IN  [estimated_yield_change_percent |-> impact["yield"],
         estimated_timeline_change_days |-> impact["timeline"],
         confidence |-> "low"]

\* the str arguments explored: the keys of the table, the "unknown" and
\* "none" of the fallback analysis, a key in another case, and other words
DeviationTypes ==
    {"fertilizer_change", "delay", "method_change", "quantity_change",
     "unknown", "timing_change", "Delay"}

Severities == {"minor", "moderate", "major", "none", "Major", "critical"}

ImpactCropTypes == {"general", "rice", "wheat"}

\* the arguments of one call of calculate_impact_metrics
InitImpact ==
    /\ db = [s \in StoredIds |-> "_id" :> s]
    /\ tasks = [s \in StoredIds |-> <<>>]
    /\ now = FirstInstant
    /\ last = NoCall
    /\ calls = NoCalls
    /\ \E deviation_type \in DeviationTypes, severity \in Severities,
          crop_type \in ImpactCropTypes :
          fb = [op |-> "none",
                deviation_type |-> deviation_type,
                severity |-> severity,
                crop_type |-> crop_type]

CalculateImpactMetrics ==
    /\ fb.op = "none"
    /\ fb' = [op |-> "calculate_impact_metrics",
              deviation_type |-> fb.deviation_type,
              severity |-> fb.severity,
              crop_type |-> fb.crop_type,
              ret |-> CalculateImpactMetricsCall(fb.deviation_type, fb.severity,
                                                 fb.crop_type)]
    /\ UNCHANGED <<db, tasks, now, last, calls>>

NextImpact == CalculateImpactMetrics

SpecImpact == InitImpact /\ [][NextImpact]_vars

-----------------------------------------------------------------------------
(* Claims about calculate_impact_metrics, checked under SpecImpact          *)

ClaimDeviationTypes == {"fertilizer_change", "delay", "method_change", "quantity_change"}

ClaimSeverities == <<"minor", "moderate", "major">>

\* C11: calculate_impact_metrics returns the impact-table entry for
\* (deviation_type, severity) when deviation_type is one of the four table
\* types and severity one of minor, moderate, major, and yield change 0 and
\* timeline change 0 for every other pair; always the yield change is <= 0,
\* the timeline change is >= 0, confidence is "low", the result does not
\* depend on crop_type, and within one deviation type the yield loss and
\* the timeline delay do not decrease from minor to moderate to major.
C11_ImpactMetrics ==
    fb.op = "calculate_impact_metrics" =>
        LET yield    == fb.ret.estimated_yield_change_percent
            timeline == fb.ret.estimated_timeline_change_days
            inTable  == /\ fb.deviation_type \in ClaimDeviationTypes
                        /\ \E i \in 1..3 : ClaimSeverities[i] = fb.severity
            At(i)    == CalculateImpactMetricsCall(fb.deviation_type,
                                                   ClaimSeverities[i], fb.crop_type)
        IN  /\ DOMAIN fb.ret = {"estimated_yield_change_percent",
                                "estimated_timeline_change_days", "confidence"}
            /\ inTable =>
                  /\ yield = impact_table[fb.deviation_type][fb.severity]["yield"]
                  /\ timeline = impact_table[fb.deviation_type][fb.severity]["timeline"]
            /\ ~inTable => (yield = 0 /\ timeline = 0)
            /\ yield <= 0
            /\ timeline >= 0
            /\ fb.ret.confidence = "low"
            /\ \A crop_type \in ImpactCropTypes :
                  CalculateImpactMetricsCall(fb.deviation_type, fb.severity,
                                             crop_type) = fb.ret
            /\ \A i \in 1..2 :
                  /\ At(i + 1).estimated_yield_change_percent
                        <= At(i).estimated_yield_change_percent
                  /\ At(i + 1).estimated_timeline_change_days
                        >= At(i).estimated_timeline_change_days

\* a table entry returned for a crop other than the default, and a type
\* outside the table answered with zeros for a severity of the table
C11_Witness ==
    /\ fb.op = "calculate_impact_metrics"
    /\ fb.crop_type = "rice"
    /\ \/ /\ fb.deviation_type = "delay" /\ fb.severity = "major"
          /\ fb.ret.estimated_yield_change_percent = -15
          /\ fb.ret.estimated_timeline_change_days = 7
       \/ /\ fb.deviation_type = "unknown" /\ fb.severity = "moderate"
          /\ fb.ret.estimated_yield_change_percent = 0

-----------------------------------------------------------------------------
(* auto_transition_phases and update_phase as coroutines: each await of a   *)
(* database read or write is one step, and the steps of calls in flight     *)
(* interleave                                                               *)

\* the season the concurrent calls are about
RacedSeason == CHOOSE s \in StoredIds : TRUE

\* a coroutine's record after it returned ret: its locals are gone
Returned(ret) == [NotCalled EXCEPT !.pc = "done", !.ret = ret]

\* current_phase = await self.get_current_phase(season_id), and the branch
\* on it: the pre_sowing and harvest branches next read the season, the
\* growth branch next calls can_transition_to_harvest, any other phase
\* returns None
AwaitGetCurrentPhase(c) ==
    /\ calls[c].pc = "start"
    /\ LET phase == GetCurrentPhase(db, now, RacedSeason)
           call  == [NotCalled EXCEPT !.current_phase = phase.ret]
       IN  calls' = [calls EXCEPT ![c] =
              IF phase.raised THEN Returned("InvalidId")
              ELSE IF phase.ret \in {"pre_sowing", "harvest"}
              THEN [call EXCEPT !.pc = "find_one"]
              ELSE IF phase.ret = "growth"
              THEN [call EXCEPT !.pc = "can_transition_to_harvest"]
              ELSE Returned(NoTransition)]
    /\ UNCHANGED <<db, tasks, now, last, fb>>

\* season = await self.seasons_collection.find_one(...) of the pre_sowing
\* and harvest branches, and the test of the field that allows the move
AwaitFindOne(c) ==
    /\ calls[c].pc = "find_one"
    /\ LET season == FindOne(db, RacedSeason)
           field  == IF calls[c].current_phase = "pre_sowing"
                     THEN "start_date" ELSE "actual_harvest_date"
           target == IF calls[c].current_phase = "pre_sowing"
                     THEN "growth" ELSE "completed"
       IN  calls' = [calls EXCEPT ![c] =
              IF ~Falsy(season) /\ Has(season, field)
              THEN [@ EXCEPT !.pc = "update_phase", !.new_phase = target]
              ELSE Returned(NoTransition)]
    /\ UNCHANGED <<db, tasks, now, last, fb>>

\* the find_one of can_transition_to_harvest: the season and the clock it
\* judges age and health by; a season not found is not ready
AwaitReadinessFindOne(c) ==
    /\ calls[c].pc = "can_transition_to_harvest"
    /\ LET season == FindOne(db, RacedSeason)
       IN  calls' = [calls EXCEPT ![c] =
              IF Falsy(season) THEN Returned(NoTransition)
              ELSE [@ EXCEPT !.pc = "get_pending_tasks", !.season = season, !.t = now]]
    /\ UNCHANGED <<db, tasks, now, last, fb>>

\* pending_tasks = await task_service.get_pending_tasks(season_id), the rest
\* of can_transition_to_harvest and the test of readiness["ready"]
AwaitGetPendingTasks(c) ==
    /\ calls[c].pc = "get_pending_tasks"
    /\ LET readiness == CanTransitionToHarvest(RacedSeason :> calls[c].season, tasks,
                                               calls[c].t, RacedSeason).ret
       IN  calls' = [calls EXCEPT ![c] =
              IF readiness.ready
              THEN [@ EXCEPT !.pc = "update_phase", !.new_phase = "harvest",
                             !.season = None, !.t = 0]
              ELSE Returned(NoTransition)]
    /\ UNCHANGED <<db, tasks, now, last, fb>>

\* await self.update_phase(season_id, new_phase); return new_phase
AwaitUpdatePhase(c) ==
    /\ calls[c].pc = "update_phase"
    /\ LET call == UpdatePhaseCall(db, now, RacedSeason, calls[c].new_phase)
       IN  /\ db' = call.db
           /\ calls' = [calls EXCEPT ![c] =
                 [Returned(calls[c].new_phase) EXCEPT
                     !.wrote = TRUE,
                     !.replaced = Get(FindOne(db, RacedSeason), "current_phase",
                                      NoTransition)]]
    /\ UNCHANGED <<tasks, now, last, fb>>

\* the coroutine is free for the next call
CallAgain(c) ==
    /\ calls[c].pc = "done"
    /\ calls' = [calls EXCEPT ![c] = NotCalled]
    /\ UNCHANGED <<db, tasks, now, last, fb>>

\* a whole update_phase call by another coroutine: it awaits once
ConcurrentUpdatePhase(new_phase) ==
    /\ db' = UpdatePhaseCall(db, now, RacedSeason, new_phase).db
    /\ UNCHANGED <<tasks, now, last, fb, calls>>

\* a season as created, its pending tasks, and the time of the calls
InitConcurrent ==
    /\ db \in { f \in [StoredIds -> UNION {NewSeasons(s) : s \in StoredIds}] :
                  \A s \in StoredIds : f[s]["_id"] = s }
    /\ tasks \in [StoredIds -> TaskLists]
    /\ now \in Instants
    /\ last = NoCall
    /\ fb = NoFeedback
    /\ calls = NoCalls

NextConcurrent ==
    \/ \E c \in AutoCalls :
          \/ AwaitGetCurrentPhase(c)
          \/ AwaitFindOne(c)
          \/ AwaitReadinessFindOne(c)
          \/ AwaitGetPendingTasks(c)
          \/ AwaitUpdatePhase(c)
          \/ CallAgain(c)
    \/ \E new_phase \in PhaseArgs : ConcurrentUpdatePhase(new_phase)

SpecConcurrent == InitConcurrent /\ [][NextConcurrent]_vars

-----------------------------------------------------------------------------
(* Claims about concurrent calls, checked under SpecConcurrent              *)

\* the phase after p in PHASES
SuccessorPhase(p) ==
    IF \E i \in 1..(Len(PHASES) - 1) : PHASES[i] = p
    THEN PHASES[(CHOOSE i \in 1..(Len(PHASES) - 1) : PHASES[i] = p) + 1]
    ELSE NoTransition

\* C12: when auto_transition_phases runs concurrently with update_phase or
\* with another auto_transition_phases on the same season, the current_phase
\* a call writes is the immediate successor of the current_phase stored at
\* the moment of the write: a call never overwrites a later phase with an
\* earlier one.
C12_WritesSuccessor ==
    \A c \in AutoCalls :
        (calls[c].wrote /\ calls[c].replaced # NoTransition) =>
            calls[c].ret = SuccessorPhase(calls[c].replaced)

=============================================================================
